---- MODULE Spec2Model ----
(***************************************************************************)
(* Semantic analysis of the Crema compiler front end (src/semantics.cpp):  *)
(* the SemanticContext symbol tables, the semanticAnalysis / getType       *)
(* protocol of the AST nodes and the checkRecursion call-graph traversal.  *)
(*                                                                         *)
(* AST nodes are records tagged by the name of their C++ class in "kind".  *)
(* A pointer to a declaration is the declaration record itself; the null   *)
(* pointer is NULL.  Return values are the strings "true" and "false";     *)
(* a call that does not return ends the process, with "segv" (a read       *)
(* through a null pointer that faults) or "overflow" (the call stack is    *)
(* exhausted by unbounded recursion).                                      *)
(***************************************************************************)
EXTENDS Integers, Sequences, FiniteSets, TLC

VARIABLES
    vars,       \* SemanticContext::vars, the stack of scopes (semantics.h:23)
    currType,   \* SemanticContext::currType, the expected return types (semantics.h:24)
    currScope,  \* SemanticContext::currScope, 0-based index of the top scope (semantics.h:21)
    funcs,      \* SemanticContext::funcs, the registered functions (semantics.h:27)
    structs,    \* SemanticContext::structs, the registered structures (semantics.h:26)
    op,         \* the last operation called on the context
    arg,        \* its argument
    ret,        \* what it returned ("true", "false", a pointer, or how the process ended)
    out,        \* the lines it wrote to std::cout
    found,      \* the pointer the last search returned (NULL after any other operation)
    rtarget,    \* checkRecursion: the function declaration being checked (func)
    rstack,     \* checkRecursion: the call stack, one frame per active NBlock::checkRecursion
    rpc         \* checkRecursion: "idle", "run", or how it ended

ctxvars == <<vars, currType, currScope>>
hist == <<op, arg, ret, out, found>>
recvars == <<rtarget, rstack, rpc>>
regs == <<funcs, structs>>
allvars == <<vars, currType, currScope, funcs, structs, op, arg, ret, out, found, rtarget, rstack, rpc>>

-----------------------------------------------------------------------------
(* Bounds of the model *)

\* deepest scope stack the model explores
MaxDepth == 3
\* most variable declarations held by all scopes together
MaxVars == 2
\* frames the call stack of checkRecursion holds before it is exhausted
MaxStack == 4

-----------------------------------------------------------------------------
(* Type encoding *)

\* 0xF0000000, the list flag or-ed into a base type code, as the 32-bit int
\* the result is stored in: 0xF0000000 - 2^32
ListFlag == -268435456

\* type | 0xF0000000 for a base code below 2^28 or an already flagged type
SetList(type) == IF type < 0 THEN type ELSE type + ListFlag

NULL == [kind |-> "NULL"]

\* how the process ends when a call does not return
Crashes == {"segv", "overflow"}

\* what a build makes of a read through a null pointer: the read faults
\* ("segv"); the read is moved after the null test, which then fires
\* ("lucky"); the null test is removed as dead and a garbage value is used
\* ("wild")
UBOutcomes == {"segv", "lucky", "wild"}

-----------------------------------------------------------------------------
(* SemanticContext *)

Ctx(v, t, s) == [vars |-> v, currType |-> t, currScope |-> s]

Front(s) == SubSeq(s, 1, Len(s) - 1)

Back(s) == s[Len(s)]

newScope(c, type) ==
    [vars |-> Append(c.vars, <<>>),
     currType |-> Append(c.currType, type),
     currScope |-> c.currScope + 1]

\* a faulty variant: the expected return type is left on its stack
delScope_KeepType(c) ==
    [vars |-> Front(c.vars),
     currType |-> c.currType,
     currScope |-> c.currScope - 1]

delScope(c) ==
    [vars |-> Front(c.vars),
     currType |-> Front(c.currType),
     currScope |-> c.currScope - 1]

\* the scope registerVar reads and writes: vars[currScope]
CurrentScope(c) == c.vars[c.currScope + 1]

registerVarDup(c, var) ==
    \E j \in 1..Len(CurrentScope(c)) : var.ident = CurrentScope(c)[j].ident

\* a faulty variant: the duplicate search walks every scope
registerVarRet_AllScopes(c, var) ==
    IF \E i \in 1..Len(c.vars) : \E j \in 1..Len(c.vars[i]) : var.ident = c.vars[i][j].ident
    THEN "false" ELSE "true"

registerVarRet(c, var) == IF registerVarDup(c, var) THEN "false" ELSE "true"

registerVarCtx(c, var) ==
    IF registerVarRet(c, var) = "false" THEN c
    ELSE [c EXCEPT !.vars[c.currScope + 1] = Append(@, var)]

RECURSIVE searchScope(_, _, _)
searchScope(scope, j, ident) ==
    IF j > Len(scope) THEN NULL
    ELSE IF ident = scope[j].ident THEN scope[j]
    ELSE searchScope(scope, j + 1, ident)

RECURSIVE searchVarsFrom(_, _, _)
searchVarsFrom(c, i, ident) ==
    IF i < 1 THEN NULL
    ELSE IF searchScope(c.vars[i], 1, ident) # NULL THEN searchScope(c.vars[i], 1, ident)
    ELSE searchVarsFrom(c, i - 1, ident)

RECURSIVE searchVarsOutermost(_, _, _)
searchVarsOutermost(c, i, ident) ==
    IF i > Len(c.vars) THEN NULL
    ELSE IF searchScope(c.vars[i], 1, ident) # NULL THEN searchScope(c.vars[i], 1, ident)
    ELSE searchVarsOutermost(c, i + 1, ident)

\* a faulty variant: scopes are searched outermost first
searchVars_OutermostFirst(c, ident) == searchVarsOutermost(c, 1, ident)

searchVars(c, ident) == searchVarsFrom(c, Len(c.vars), ident)

RECURSIVE searchFuncsFrom(_, _, _)
searchFuncsFrom(fs, i, ident) ==
    IF i > Len(fs) THEN NULL
    ELSE IF ident = fs[i].ident THEN fs[i]
    ELSE searchFuncsFrom(fs, i + 1, ident)

searchFuncs(fs, ident) == searchFuncsFrom(fs, 1, ident)

\* the loop of registerFunc and of registerStruct: a registered declaration
\* has the identifier
registryDup(registry, decl) ==
    \E j \in 1..Len(registry) : decl.ident = registry[j].ident

\* a faulty variant: only the declaration registered last is compared
registerFuncRet_LastOnly(fs, func) ==
    IF Len(fs) > 0 /\ func.ident = fs[Len(fs)].ident THEN "false" ELSE "true"

registerFuncRet(fs, func) == IF registryDup(fs, func) THEN "false" ELSE "true"

\* funcs after registerFunc
registerFuncList(fs, func) ==
    IF registerFuncRet(fs, func) = "false" THEN fs ELSE Append(fs, func)

registerStructRet(ss, s) == IF registryDup(ss, s) THEN "false" ELSE "true"

\* structs after registerStruct
registerStructList(ss, s) ==
    IF registerStructRet(ss, s) = "false" THEN ss ELSE Append(ss, s)

RECURSIVE searchStructsFrom(_, _, _)
searchStructsFrom(ss, i, ident) ==
    IF i > Len(ss) THEN NULL
    ELSE IF ident = ss[i].ident THEN ss[i]
    ELSE searchStructsFrom(ss, i + 1, ident)

searchStructs(ss, ident) == searchStructsFrom(ss, 1, ident)

-----------------------------------------------------------------------------
(* AST semantic protocol: getType *)

\* the effective type of a variable declaration: (size == 1) ? type : 0xF0000000 | type
VarType(var) == IF var.size = 1 THEN var.type ELSE SetList(var.type)

\* a faulty variant: an unresolved identifier has a type of its own
NVariableAccess_getType_Unknown(n, c) ==
    IF searchVars(c, n.ident) # NULL THEN VarType(searchVars(c, n.ident)) ELSE -1

NVariableAccess_getType(n, c) ==
    IF searchVars(c, n.ident) # NULL THEN VarType(searchVars(c, n.ident)) ELSE 0

NFunctionCall_getType(n, c) ==
    IF searchFuncs(funcs, n.ident) # NULL
    THEN (IF searchFuncs(funcs, n.ident).listReturn
          THEN SetList(searchFuncs(funcs, n.ident).type)
          ELSE searchFuncs(funcs, n.ident).type)
    ELSE 0

RECURSIVE getType(_, _)
\* a faulty variant: the type of the first element decides
NList_getType_FirstOnly(n, c) ==
    IF Len(n.value) = 0 THEN 0 ELSE SetList(getType(n.value[1], c))

NList_getType(n, c) ==
    IF Len(n.value) = 0 THEN 0
    ELSE IF \E i \in 2..Len(n.value) : getType(n.value[i], c) # getType(n.value[1], c)
    THEN 0
    ELSE SetList(getType(n.value[1], c))

getType(n, c) ==
    CASE n.kind = "NVariableAccess" -> NVariableAccess_getType(n, c)
      [] n.kind = "NFunctionCall" -> NFunctionCall_getType(n, c)
      [] n.kind = "NList" -> NList_getType(n, c)

-----------------------------------------------------------------------------
(* AST semantic protocol: checkRecursion *)

\* a node that does not override checkRecursion
Node_checkRecursion(n) == "false"

RECURSIVE checkRecursion(_, _, _, _)
RECURSIVE NBlock_checkRecursionFrom(_, _, _, _, _)
\* the loop of NBlock::checkRecursion from statement i on; depth counts the
\* active NBlock::checkRecursion frames, this one included
NBlock_checkRecursionFrom(n, i, func, ub, depth) ==
    IF i > Len(n.statements) THEN "false"
    ELSE LET r == checkRecursion(n.statements[i], func, ub, depth)
         IN  IF r = "false"
             THEN NBlock_checkRecursionFrom(n, i + 1, func, ub, depth)
             ELSE r

NBlock_checkRecursion(n, func, ub, depth) ==
    IF depth > MaxStack THEN "overflow"
    ELSE NBlock_checkRecursionFrom(n, 1, func, ub, depth)

\* a faulty variant: the test for a call to the checked function is left out
CallsTarget_Never(n, func) == FALSE

\* func->ident == ident: the call is a call to the function being checked
CallsTarget(n, func) == func.ident = n.ident

NFunctionCall_checkRecursion(n, func, ub, depth) ==
    IF CallsTarget(n, func) THEN "true"
    ELSE IF searchFuncs(funcs, n.ident) = NULL
    THEN (CASE ub = "segv" -> "segv"
            [] ub = "lucky" -> "false"
            [] ub = "wild" -> "true")
    ELSE NBlock_checkRecursion(searchFuncs(funcs, n.ident).body, func, ub, depth + 1)

checkRecursion(n, func, ub, depth) ==
    CASE n.kind = "NBlock" -> NBlock_checkRecursion(n, func, ub, depth + 1)
      [] n.kind = "NFunctionCall" -> NFunctionCall_checkRecursion(n, func, ub, depth)
      [] OTHER -> Node_checkRecursion(n)

-----------------------------------------------------------------------------
(* AST semantic protocol: semanticAnalysis *)

\* the result of a call: what it returned, the context it left, what it printed
Res(r, c, o) == [ret |-> r, c |-> c, out |-> o]

Diag(msg, about) == [msg |-> msg, about |-> about]

\* a node that does not override semanticAnalysis
Node_semanticAnalysis(n, c) == Res("true", c, <<>>)

NBinaryOperator_semanticAnalysis(n, c) ==
    IF getType(n.lhs, c) # getType(n.rhs, c)
    THEN Res("false", c, <<Diag("Binary operator type mismatch for op: ", n.op)>>)
    ELSE Res("true", c, <<>>)

\* a faulty variant: the size of the target is not looked at
NAssignmentStatement_semanticAnalysis_BaseType(n, c, ub) ==
    LET var == searchVars(c, n.ident)
        undefined == Res("false", c, <<Diag("Assignment to undefined variable ", n.ident)>>)
        mismatch == Res("false", c, <<Diag("Type mismatch for assignment to ", n.ident)>>)
    IN  IF var = NULL
        THEN (CASE ub = "segv" -> Res("segv", c, <<>>)
                [] ub = "lucky" -> undefined
                [] ub = "wild" -> mismatch)
        ELSE IF var.type # getType(n.expr, c) THEN mismatch
        ELSE Res("true", c, <<>>)

NAssignmentStatement_semanticAnalysis(n, c, ub) ==
    LET var == searchVars(c, n.ident)
        undefined == Res("false", c, <<Diag("Assignment to undefined variable ", n.ident)>>)
        mismatch == Res("false", c, <<Diag("Type mismatch for assignment to ", n.ident)>>)
    IN  IF var = NULL
        THEN \* var->size is read through the null pointer before the test
             (CASE ub = "segv" -> Res("segv", c, <<>>)
                [] ub = "lucky" -> undefined
                [] ub = "wild" -> mismatch)
        ELSE IF VarType(var) # getType(n.expr, c) THEN mismatch
        ELSE Res("true", c, <<>>)

NReturn_semanticAnalysis(n, c) ==
    IF getType(n.retExpr, c) # Back(c.currType)
    THEN Res("false", c, <<Diag("Returning type ", "")>>)
    ELSE Res("true", c, <<>>)

\* the type without its list flag
BaseType(type) == IF type < 0 THEN type - ListFlag ELSE type

\* a faulty variant: only the base types of argument and parameter are compared
NFunctionCall_semanticAnalysis_BaseOnly(n, c) ==
    LET func == searchFuncs(funcs, n.ident)
    IN  IF func # NULL
        THEN IF Len(func.variables) # Len(n.args)
             THEN Res("false", c, <<Diag("Call with invalid number of arguments: ", n.ident)>>)
             ELSE IF \E i \in 1..Len(n.args) :
                        BaseType(getType(n.args[i], c)) # func.variables[i].type
             THEN Res("false", c, <<Diag("Type mismatch when calling function: ", n.ident)>>)
             ELSE Res("true", c, <<>>)
        ELSE Res("false", c, <<Diag("Call to undefined function: ", n.ident)>>)

\* a faulty variant: the argument is compared with the parameter's type, its
\* list flag included
NFunctionCall_semanticAnalysis_ParamSize(n, c) ==
    LET func == searchFuncs(funcs, n.ident)
    IN  IF func # NULL
        THEN IF Len(func.variables) # Len(n.args)
             THEN Res("false", c, <<Diag("Call with invalid number of arguments: ", n.ident)>>)
             ELSE IF \E i \in 1..Len(n.args) :
                        getType(n.args[i], c) # VarType(func.variables[i])
             THEN Res("false", c, <<Diag("Type mismatch when calling function: ", n.ident)>>)
             ELSE Res("true", c, <<>>)
        ELSE Res("false", c, <<Diag("Call to undefined function: ", n.ident)>>)

NFunctionCall_semanticAnalysis(n, c) ==
    LET func == searchFuncs(funcs, n.ident)
    IN  IF func # NULL
        THEN IF Len(func.variables) # Len(n.args)
             THEN Res("false", c, <<Diag("Call with invalid number of arguments: ", n.ident)>>)
             ELSE IF \E i \in 1..Len(n.args) : getType(n.args[i], c) # func.variables[i].type
             THEN Res("false", c, <<Diag("Type mismatch when calling function: ", n.ident)>>)
             ELSE Res("true", c, <<>>)
        ELSE Res("false", c, <<Diag("Call to undefined function: ", n.ident)>>)

\* semanticAnalysis of an expression node (the initializer of a declaration)
Expr_semanticAnalysis(n, c) ==
    CASE n.kind = "NBinaryOperator" -> NBinaryOperator_semanticAnalysis(n, c)
      [] n.kind = "NFunctionCall" -> NFunctionCall_semanticAnalysis(n, c)
      [] OTHER -> Node_semanticAnalysis(n, c)

NVariableDeclaration_semanticAnalysis(n, c) ==
    LET ltype == VarType(n)
        c1 == registerVarCtx(c, n)
    IN  IF registerVarRet(c, n) = "false"
        THEN Res("false", c, <<Diag("Duplicate var decl for ", n.ident)>>)
        ELSE IF n.init # NULL
        THEN IF getType(n.init, c1) # ltype
             THEN Res("false", c1, <<Diag("Type mismatch for ", n.ident)>>)
             ELSE IF Expr_semanticAnalysis(n.init, c1).ret # "true"
             THEN Res("false", c1, Expr_semanticAnalysis(n.init, c1).out
                                     \o <<Diag("Type mismatch for ", n.ident)>>)
             ELSE Res("true", c1, <<>>)
        ELSE Res("true", c1, <<>>)

RECURSIVE semanticAnalysis(_, _, _)
RECURSIVE NBlock_statementsFrom(_, _, _, _, _)
\* a faulty variant: a failing statement does not end the loop
NBlock_statementsFrom_NoFailFast(n, i, c, o, ub) ==
    IF i > Len(n.statements) THEN Res("true", delScope(c), o)
    ELSE LET r == semanticAnalysis(n.statements[i], c, ub)
         IN  IF r.ret \in Crashes THEN Res(r.ret, r.c, o \o r.out)
             ELSE IF r.ret = "true" \/ i < Len(n.statements)
             THEN NBlock_statementsFrom(n, i + 1, r.c, o \o r.out, ub)
             ELSE Res("false", r.c, o \o r.out)

\* the loop of NBlock::semanticAnalysis from statement i on, then delScope
NBlock_statementsFrom(n, i, c, o, ub) ==
    IF i > Len(n.statements) THEN Res("true", delScope(c), o)
    ELSE LET r == semanticAnalysis(n.statements[i], c, ub)
         IN  IF r.ret = "true"
             THEN NBlock_statementsFrom(n, i + 1, r.c, o \o r.out, ub)
             ELSE Res(r.ret, r.c, o \o r.out)

\* a faulty variant: the scope of a block expects no return value
NBlock_semanticAnalysis_VoidScope(n, c, ub) ==
    NBlock_statementsFrom(n, 1, newScope(c, 0), <<>>, ub)

NBlock_semanticAnalysis(n, c, ub) ==
    NBlock_statementsFrom(n, 1, newScope(c, Back(c.currType)), <<>>, ub)

RECURSIVE registerParams(_, _, _)
\* the loop registering the parameters; registerVar's result is dropped
registerParams(variables, i, c) ==
    IF i > Len(variables) THEN c
    ELSE registerParams(variables, i + 1, registerVarCtx(c, variables[i]))

NFunctionDeclaration_semanticAnalysis(n, c, ub) ==
    LET c1 == registerParams(n.variables, 1,
                  newScope(c, IF n.listReturn THEN SetList(n.type) ELSE n.type))
        blockSA == NBlock_semanticAnalysis(n.body, c1, ub)
        blockRecur == checkRecursion(n.body, n, ub, 0)
    IN  IF blockSA.ret \in Crashes THEN blockSA
        ELSE IF blockRecur \in Crashes THEN Res(blockRecur, blockSA.c, blockSA.out)
        ELSE Res(IF blockSA.ret = "true" /\ blockRecur = "false" THEN "true" ELSE "false",
                 delScope(blockSA.c),
                 blockSA.out \o (IF blockRecur = "true"
                                 THEN <<Diag("Recursive function call in ", n.ident)>>
                                 ELSE <<>>))

semanticAnalysis(n, c, ub) ==
    CASE n.kind = "NBlock" -> NBlock_semanticAnalysis(n, c, ub)
      [] n.kind = "NVariableDeclaration" -> NVariableDeclaration_semanticAnalysis(n, c)
      [] n.kind = "NAssignmentStatement" -> NAssignmentStatement_semanticAnalysis(n, c, ub)
      [] n.kind = "NReturn" -> NReturn_semanticAnalysis(n, c)
      [] n.kind = "NFunctionCall" -> NFunctionCall_semanticAnalysis(n, c)
      [] n.kind = "NBinaryOperator" -> NBinaryOperator_semanticAnalysis(n, c)
      [] n.kind = "NFunctionDeclaration" -> NFunctionDeclaration_semanticAnalysis(n, c, ub)

-----------------------------------------------------------------------------
(* The programs analysed *)

Var(ident, type, size) ==
    [kind |-> "NVariableDeclaration", ident |-> ident, type |-> type, size |-> size,
     init |-> NULL]

Access(ident) == [kind |-> "NVariableAccess", ident |-> ident]

Assign(ident, expr) == [kind |-> "NAssignmentStatement", ident |-> ident, expr |-> expr]

Return(expr) == [kind |-> "NReturn", retExpr |-> expr]

Call(ident, args) == [kind |-> "NFunctionCall", ident |-> ident, args |-> args]

Block(statements) == [kind |-> "NBlock", statements |-> statements]

Func(ident, type, variables, body) ==
    [kind |-> "NFunctionDeclaration", ident |-> ident, type |-> type,
     listReturn |-> FALSE, variables |-> variables, body |-> body]

Idents == {"x", "y"}

\* the declarations registered directly and declared by statements
Decls == {Var("x", 1, 1), Var("x", 2, 2), Var("y", 1, 1)}

\* the return types given to newScope directly
ScopeTypes == {0, 1}

Assigns == {Assign("x", Access("y")), Assign("y", Access("y"))}

\* the statements of the blocks analysed: declarations, an assignment, a
\* return and a call
SimpleStmts ==
    {Var("y", 1, 1), Var("x", 2, 2), Assign("x", Access("y")), Return(Access("x")),
     Call("h", <<>>)}

SeqsUpTo2(S) == {<<>>} \cup {<<a>> : a \in S} \cup {<<a, b>> : a \in S, b \in S}

FlatBlocks == {Block(ss) : ss \in SeqsUpTo2(SimpleStmts)}

\* blocks holding one nested block, before or after a declaration
NestedBlocks ==
    {Block(<<Block(<<a>>), Var("y", 1, 1)>>) : a \in SimpleStmts}
    \cup {Block(<<Var("y", 1, 1), Block(<<a>>)>>) : a \in SimpleStmts}

Blocks == FlatBlocks \cup NestedBlocks

\* the functions the driver registered before the analysis: g is sound, h
\* calls itself
InitFuncs ==
    <<Func("g", 1, <<Var("x", 1, 1)>>, Block(<<Return(Access("x"))>>)),
      Func("h", 0, <<>>, Block(<<Call("h", <<>>)>>))>>

\* the function declarations analysed
FuncDecls ==
    {Func("f", 1, ps, Block(ss)) :
        ps \in {<<>>, <<Var("x", 1, 1)>>, <<Var("x", 1, 1), Var("x", 2, 2)>>},
        ss \in {<<>>, <<Return(Access("x"))>>, <<Assign("x", Access("y"))>>,
                <<Call("f", <<>>)>>, <<Call("h", <<>>)>>, <<Call("k", <<>>)>>,
                <<Block(<<Var("y", 1, 1), Return(Access("y"))>>)>>}}

-----------------------------------------------------------------------------
(* The analysis of one compilation unit: the driver's calls on rootCtx *)

Cur == Ctx(vars, currType, currScope)

NumVars(c) == LET RECURSIVE sum(_)
                  sum(i) == IF i > Len(c.vars) THEN 0 ELSE Len(c.vars[i]) + sum(i + 1)
              IN  sum(1)

\* the contexts the model explores
InBounds(c) == Len(c.vars) <= MaxDepth /\ NumVars(c) <= MaxVars

\* the driver is between two calls: the last one returned and its result
\* was consumed
Idle == op = "idle"

\* the read of an oracle matters only to a call that reads through a null
\* pointer, which is a call that ends with "segv" under the faulting build
Oracles(n, c) ==
    IF semanticAnalysis(n, c, "segv").ret = "segv" THEN UBOutcomes ELSE {"segv"}

\* SemanticContext::SemanticContext(): the root (empty) scope
Init ==
    /\ vars = <<<<>>>>
    /\ currType = <<0>>
    /\ currScope = 0
    /\ funcs = InitFuncs
    /\ structs = <<>>
    /\ op = "idle"
    /\ arg = NULL
    /\ ret = "void"
    /\ out = <<>>
    /\ found = NULL
    /\ rtarget = NULL
    /\ rstack = <<>>
    /\ rpc = "idle"

Becomes(c) ==
    /\ vars' = c.vars
    /\ currType' = c.currType
    /\ currScope' = c.currScope

Called(o, a, r, w, f) ==
    /\ op' = o
    /\ arg' = a
    /\ ret' = r
    /\ out' = w
    /\ found' = f

NewScope(type) ==
    /\ Idle
    /\ Len(vars) < MaxDepth
    /\ Becomes(newScope(Cur, type))
    /\ Called("newScope", [type |-> type], "void", <<>>, NULL)
    /\ UNCHANGED <<regs, recvars>>

DelScope ==
    /\ Idle
    /\ Len(vars) >= 1
    /\ Becomes(delScope(Cur))
    /\ Called("delScope", NULL, "void", <<>>, NULL)
    /\ UNCHANGED <<regs, recvars>>

RegisterVar(var) ==
    /\ Idle
    /\ Len(vars) >= 1
    /\ InBounds(registerVarCtx(Cur, var))
    /\ Becomes(registerVarCtx(Cur, var))
    /\ Called("registerVar", var, registerVarRet(Cur, var), <<>>, NULL)
    /\ UNCHANGED <<regs, recvars>>

SearchVars(ident) ==
    /\ Idle
    /\ Called("searchVars", [ident |-> ident],
              IF searchVars(Cur, ident) = NULL THEN "NULL" ELSE "ptr",
              <<>>, searchVars(Cur, ident))
    /\ UNCHANGED <<ctxvars, regs, recvars>>

\* n->semanticAnalysis(&rootCtx) for a node n of the AST
Analyse(n) ==
    /\ Idle
    /\ Len(vars) >= 1
    /\ \E ub \in Oracles(n, Cur) :
         \E r \in {semanticAnalysis(n, Cur, ub)} :
             /\ InBounds(r.c)
             /\ Becomes(r.c)
             /\ Called(n.kind, n, r.ret, r.out, NULL)
    /\ UNCHANGED <<regs, recvars>>

\* the driver takes the result of a call that returned; a call that ended
\* the process is the last
Returned ==
    /\ ~Idle
    /\ ret \notin Crashes
    /\ Called("idle", NULL, "void", <<>>, NULL)
    /\ UNCHANGED <<ctxvars, regs, recvars>>

NBlock_SA == \E n \in Blocks : Analyse(n)

NFunctionDeclaration_SA == \E n \in FuncDecls : Analyse(n)

NAssignmentStatement_SA == \E n \in Assigns : Analyse(n)

Next ==
    \/ \E type \in ScopeTypes : NewScope(type)
    \/ DelScope
    \/ \E var \in Decls : RegisterVar(var)
    \/ \E ident \in Idents : SearchVars(ident)
    \/ NBlock_SA
    \/ NFunctionDeclaration_SA
    \/ NAssignmentStatement_SA
    \/ Returned

Spec == Init /\ [][Next]_allvars

-----------------------------------------------------------------------------
(* Properties of the scope stack *)

\* the context after the step
CurNext == Ctx(vars', currType', currScope')

\* the call returned to the driver, with true or with false
ReturnedBool(r) == r \in {"true", "false"}

\* C1: when NBlock::semanticAnalysis returns, with true or with false, the
\* scope stack and the expected-return-type stack are as deep as before the
\* call.
C1_BlockPopsItsScope ==
    [][(op' = "NBlock" /\ ReturnedBool(ret'))
        => (Len(vars') = Len(vars) /\ Len(currType') = Len(currType))]_allvars

\* C2: the scope stack and the expected-return-type stack have the same
\* length in every state, whatever calls were made and however they ended.
C2_StacksSameLength == Len(vars) = Len(currType)

\* a block analysis failed and left its scope behind, and the stacks agree
C2_Witness ==
    /\ op = "NBlock"
    /\ ret = "false"
    /\ Len(vars) = 3
    /\ Len(currType) = 3

\* C3: NAssignmentStatement::semanticAnalysis on a target that no scope
\* holds returns false with the undefined-variable diagnostic.
C3_UndefinedTargetReported ==
    [][(op' = "NAssignmentStatement" /\ searchVars(Cur, arg'.ident) = NULL)
        => (/\ ret' = "false"
            /\ out' = <<Diag("Assignment to undefined variable ", arg'.ident)>>)]_allvars

\* C4: after NFunctionDeclaration::semanticAnalysis returns, a parameter
\* that no enclosing scope declares is absent for searchVars and the top
\* expected return type is the one from before the call.
C4_FunctionScopeGone ==
    [][(op' = "NFunctionDeclaration" /\ ReturnedBool(ret'))
        => (/\ \A i \in 1..Len(arg'.variables) :
                  searchVars(Cur, arg'.variables[i].ident) = NULL
                  => searchVars(CurNext, arg'.variables[i].ident) = NULL
            /\ Back(currType') = Back(currType))]_allvars

\* the identifiers of a scope are pairwise distinct
ScopeDistinct(scope) ==
    \A i, j \in 1..Len(scope) : scope[i].ident = scope[j].ident => i = j

\* the identifier is declared in the scope
InScope(scope, ident) == \E j \in 1..Len(scope) : scope[j].ident = ident

\* C5: registerVar returns false and changes nothing when the top scope holds
\* the identifier; otherwise it appends the declaration to the top scope only
\* and returns true, whatever the outer scopes hold.  So the identifiers of
\* every scope are pairwise distinct in every state.
C5_RegisterVar ==
    /\ [](\A i \in 1..Len(vars) : ScopeDistinct(vars[i]))
    /\ [][op' = "registerVar"
          => IF InScope(vars[Len(vars)], arg'.ident)
             THEN ret' = "false" /\ CurNext = Cur
             ELSE /\ ret' = "true"
                  /\ vars' = [vars EXCEPT ![Len(vars)] = Append(@, arg')]
                  /\ currType' = currType]_allvars

\* registerVar accepted an identifier that an outer scope holds
C5_Witness ==
    /\ op = "registerVar"
    /\ ret = "true"
    /\ \E i \in 1..(Len(vars) - 1) : InScope(vars[i], arg.ident)
    /\ vars[Len(vars)][Len(vars[Len(vars)])] = arg

\* the declaration of ident in the innermost scope that holds one
Innermost(stack, ident) ==
    LET holding == {i \in 1..Len(stack) : InScope(stack[i], ident)}
    IN  IF holding = {} THEN NULL
        ELSE LET top == CHOOSE i \in holding : \A k \in holding : k <= i
             IN  stack[top][CHOOSE j \in 1..Len(stack[top]) : stack[top][j].ident = ident]

\* C6: searchVars returns the declaration of the innermost scope holding the
\* identifier: the inner one while an inner scope redeclares an outer
\* identifier, and the outer one again once delScope popped the inner scope.
C6_Shadowing ==
    /\ [](op = "searchVars" => found = Innermost(vars, arg.ident))
    /\ [][(/\ op' = "delScope"
           /\ Len(vars) >= 2)
          => \A x \in Idents :
                (InScope(vars[Len(vars)], x) /\ InScope(vars[Len(vars) - 1], x))
                => /\ searchVars(Cur, x) = vars[Len(vars)][CHOOSE j \in 1..Len(vars[Len(vars)]) : vars[Len(vars)][j].ident = x]
                   /\ searchVars(CurNext, x) = vars[Len(vars) - 1][CHOOSE j \in 1..Len(vars[Len(vars) - 1]) : vars[Len(vars) - 1][j].ident = x]]_allvars

\* a lookup of x returned the inner declaration while an outer scope holds
\* another declaration of x
C6_Witness ==
    /\ op = "searchVars"
    /\ arg.ident = "x"
    /\ Len(vars) >= 2
    /\ InScope(vars[Len(vars)], "x")
    /\ \E i \in 1..(Len(vars) - 1) : InScope(vars[i], "x") /\ Innermost(SubSeq(vars, 1, i), "x") # found
    /\ found = Innermost(<<vars[Len(vars)]>>, "x")

RECURSIVE DeclaredIn(_)
\* the identifiers a block declares, in itself or in a nested block
DeclaredIn(n) ==
    IF n.kind = "NVariableDeclaration" THEN {n.ident}
    ELSE IF n.kind = "NBlock"
    THEN UNION {DeclaredIn(n.statements[i]) : i \in 1..Len(n.statements)}
    ELSE {}

\* C7: a variable declared only inside a block is absent for searchVars once
\* NBlock::semanticAnalysis of the block has returned.
C7_BlockVariablesGone ==
    [][(op' = "NBlock" /\ ReturnedBool(ret'))
        => \A y \in DeclaredIn(arg') :
              searchVars(Cur, y) = NULL => searchVars(CurNext, y) = NULL]_allvars

\* C8: a block whose first statement fails returns false after it: the
\* context and the diagnostics are those the first statement left, and no
\* later statement has acted.
C8_FailFast ==
    [][(/\ op' = "NBlock"
        /\ Len(arg'.statements) >= 2
        /\ \A ub \in UBOutcomes :
              semanticAnalysis(arg'.statements[1], newScope(Cur, Back(currType)), ub).ret = "false")
        => (/\ ret' = "false"
            /\ \E ub \in UBOutcomes :
                 /\ CurNext = semanticAnalysis(arg'.statements[1], newScope(Cur, Back(currType)), ub).c
                 /\ out' = semanticAnalysis(arg'.statements[1], newScope(Cur, Back(currType)), ub).out)]_allvars

\* a block failed at its first statement, a return of the wrong type, and
\* the declaration placed second was not registered
C8_Witness ==
    /\ op = "NBlock"
    /\ ret = "false"
    /\ arg.statements = <<Return(Access("x")), Var("y", 1, 1)>>
    /\ out = <<Diag("Returning type ", "")>>
    /\ searchVars(Cur, "y") = NULL
    /\ vars[Len(vars)] = <<>>

-----------------------------------------------------------------------------
(* The recursion check, call by call: body->checkRecursion(ctx, this) of    *)
(* NFunctionDeclaration::semanticAnalysis on a registry of three functions. *)
(* rstack holds one frame per active NBlock::checkRecursion: the block and  *)
(* the index i of its loop.                                                 *)

RecNames == {"f", "b", "c"}

RecCalls == {Call(g, <<>>) : g \in RecNames}

\* the bodies of b and c: up to two calls
RecBodies == {Block(ss) : ss \in SeqsUpTo2(RecCalls)}

\* the bodies of f: those, and bodies with a call to the undeclared u, a
\* nested block and a statement that is no call
RecBodiesF ==
    RecBodies \cup
    {Block(<<Call("u", <<>>)>>),
     Block(<<Call("u", <<>>), Call("f", <<>>)>>),
     Block(<<Block(<<Call("f", <<>>)>>)>>),
     Block(<<Block(<<Call("b", <<>>)>>), Call("f", <<>>)>>),
     Block(<<Var("y", 1, 1), Call("b", <<>>)>>)}

RecRegistries ==
    {<<Func("f", 0, <<>>, bf), Func("b", 0, <<>>, bb), Func("c", 0, <<>>, bc)>> :
        bf \in RecBodiesF, bb \in RecBodies \cup {Block(<<Call("u", <<>>)>>)}, bc \in RecBodies}

Frame(n) == [n |-> n, i |-> 1]

Top == rstack[Len(rstack)]

\* the statement the loop of the top frame is at
TopStmt == Top.n.statements[Top.i]

Running == rpc = "run" /\ rstack # <<>>

AtStmt == Running /\ Top.i <= Len(Top.n.statements)

InitRec ==
    /\ vars = <<<<>>>>
    /\ currType = <<0>>
    /\ currScope = 0
    /\ funcs \in RecRegistries
    /\ structs = <<>>
    /\ op = "idle"
    /\ arg = NULL
    /\ ret = "void"
    /\ out = <<>>
    /\ found = NULL
    /\ rtarget = NULL
    /\ rstack = <<>>
    /\ rpc = "idle"

\* a callee's checkRecursion returned false: the loop of the frame below goes on
Advance(stack) == [stack EXCEPT ![Len(stack)].i = @ + 1]

\* a call of NBlock::checkRecursion: a new frame, if the stack has room
Push(n) ==
    IF Len(rstack) >= MaxStack
    THEN rpc' = "overflow" /\ UNCHANGED rstack
    ELSE rstack' = Append(rstack, Frame(n)) /\ UNCHANGED rpc

\* blockRecur = body->checkRecursion(ctx, this)
RecStart ==
    /\ rpc = "idle"
    /\ \E k \in 1..Len(funcs) :
         /\ rtarget' = funcs[k]
         /\ rstack' = <<Frame(funcs[k].body)>>
    /\ rpc' = "run"
    /\ UNCHANGED <<ctxvars, regs, hist>>

\* NBlock::checkRecursion, a statement that is neither a call nor a block
NBlock_checkRecursion_Other ==
    /\ AtStmt
    /\ TopStmt.kind \notin {"NFunctionCall", "NBlock"}
    /\ Node_checkRecursion(TopStmt) = "false"
    /\ rstack' = Advance(rstack)
    /\ UNCHANGED <<ctxvars, regs, hist, rtarget, rpc>>

\* NBlock::checkRecursion, a statement that is a block
NBlock_checkRecursion_Nested ==
    /\ AtStmt
    /\ TopStmt.kind = "NBlock"
    /\ Push(TopStmt)
    /\ UNCHANGED <<ctxvars, regs, hist, rtarget>>

\* NBlock::checkRecursion, the loop is over: return false
NBlock_checkRecursion_End ==
    /\ Running
    /\ Top.i > Len(Top.n.statements)
    /\ IF Len(rstack) = 1
       THEN rstack' = <<>> /\ rpc' = "false"
       ELSE rstack' = Advance(Front(rstack)) /\ UNCHANGED rpc
    /\ UNCHANGED <<ctxvars, regs, hist, rtarget>>

\* NFunctionCall::checkRecursion, a call to the checked function: true,
\* which every NBlock::checkRecursion on the stack returns at once
NFunctionCall_checkRecursion_Match ==
    /\ AtStmt
    /\ TopStmt.kind = "NFunctionCall"
    /\ CallsTarget(TopStmt, rtarget)
    /\ rstack' = <<>>
    /\ rpc' = "true"
    /\ UNCHANGED <<ctxvars, regs, hist, rtarget>>

\* NFunctionCall::checkRecursion, a call to another registered function:
\* its body is checked
NFunctionCall_checkRecursion_Follow ==
    /\ AtStmt
    /\ TopStmt.kind = "NFunctionCall"
    /\ ~CallsTarget(TopStmt, rtarget)
    /\ searchFuncs(funcs, TopStmt.ident) # NULL
    /\ Push(searchFuncs(funcs, TopStmt.ident).body)
    /\ UNCHANGED <<ctxvars, regs, hist, rtarget>>

\* NFunctionCall::checkRecursion, a call to a function that is not
\* registered: ->body is read through the null pointer searchFuncs returned
NFunctionCall_checkRecursion_Null ==
    /\ AtStmt
    /\ TopStmt.kind = "NFunctionCall"
    /\ ~CallsTarget(TopStmt, rtarget)
    /\ searchFuncs(funcs, TopStmt.ident) = NULL
    /\ \E ub \in UBOutcomes :
         CASE ub = "segv" -> rpc' = "segv" /\ UNCHANGED rstack
           [] ub = "lucky" -> rstack' = Advance(rstack) /\ UNCHANGED rpc
           [] ub = "wild" -> rstack' = <<>> /\ rpc' = "true"
    /\ UNCHANGED <<ctxvars, regs, hist, rtarget>>

\* the check returned and the driver goes on to the next declaration
RecDone ==
    /\ rpc \in {"true", "false"}
    /\ rpc' = "idle"
    /\ rtarget' = NULL
    /\ UNCHANGED <<ctxvars, regs, hist, rstack>>

RecStep ==
    \/ NBlock_checkRecursion_Other
    \/ NBlock_checkRecursion_Nested
    \/ NBlock_checkRecursion_End
    \/ NFunctionCall_checkRecursion_Match
    \/ NFunctionCall_checkRecursion_Follow
    \/ NFunctionCall_checkRecursion_Null

NextRec == RecStart \/ RecStep \/ RecDone

SpecRec == InitRec /\ [][NextRec]_allvars

\* a check that was started runs on: the analysis is one thread that
\* nothing suspends
SpecRecFair == SpecRec /\ WF_allvars(RecStep)

-----------------------------------------------------------------------------
(* Properties of the recursion check *)

RECURSIVE CalledBy(_)
\* the identifiers a node calls in call statements, nested blocks included
CalledBy(n) ==
    IF n.kind = "NFunctionCall" THEN {n.ident}
    ELSE IF n.kind = "NBlock"
    THEN UNION {CalledBy(n.statements[i]) : i \in 1..Len(n.statements)}
    ELSE {}

Registered == {funcs[k].ident : k \in 1..Len(funcs)}

\* the call graph: the registered functions the registered function g calls
Edges(g) == CalledBy(searchFuncs(funcs, g).body) \cap Registered

RECURSIVE Closure(_, _)
\* the functions reached from those of S by calls that stay out of avoid
Closure(S, avoid) ==
    LET N == S \cup (UNION {Edges(g) : g \in S} \ avoid)
    IN  IF N = S THEN S ELSE Closure(N, avoid)

\* the functions the check of func can enter: those reached from its body
\* without going through func
Entered(func) == Closure((CalledBy(func.body) \cap Registered) \ {func.ident}, {func.ident})

DirectCall(func) == func.ident \in CalledBy(func.body)

IndirectCall(func) ==
    \E g \in (CalledBy(func.body) \cap Registered) \ {func.ident} :
        func.ident \in Edges(g)

\* some chain of call statements leads from the body of func back to func
ChainBack(func) ==
    DirectCall(func) \/ \E g \in Entered(func) : func.ident \in Edges(g)

\* no function reached from the body of func is on a cycle of calls
AcyclicFrom(func) ==
    \A g \in Closure(CalledBy(func.body) \cap Registered, {}) :
        g \notin Closure(Edges(g), {})

\* a cycle of calls that does not include func can be entered from its body
ForeignCycle(func) ==
    \E g \in Entered(func) : g \in Closure(Edges(g) \ {func.ident}, {func.ident})

RECURSIVE RefFrom(_, _, _, _)
\* the traversal with the set of functions on the current path: "true" at a
\* call to func, "cycle" at a call to a function already on the path, "null"
\* at a call to a function that is not registered, "false" at the end
RefStmt(n, func, path) ==
    IF n.kind = "NFunctionCall"
    THEN IF n.ident = func.ident THEN "true"
         ELSE IF n.ident \notin Registered THEN "null"
         ELSE IF n.ident \in path THEN "cycle"
         ELSE RefFrom(searchFuncs(funcs, n.ident).body, 1, func, path \cup {n.ident})
    ELSE IF n.kind = "NBlock" THEN RefFrom(n, 1, func, path)
    ELSE "false"

RefFrom(n, i, func, path) ==
    IF i > Len(n.statements) THEN "false"
    ELSE IF RefStmt(n.statements[i], func, path) = "false"
    THEN RefFrom(n, i + 1, func, path)
    ELSE RefStmt(n.statements[i], func, path)

\* the check of func enters a cycle that does not include func before it
\* meets a call to func
ForeignCycleFirst(func) == RefFrom(func.body, 1, func, {}) = "cycle"

\* the check has ended
RecEnded == rpc \in {"true", "false", "segv", "overflow"}

\* every call statement the check of func can meet names a registered function
AllResolved(func) ==
    \A g \in Closure({func.ident}, {}) : CalledBy(searchFuncs(funcs, g).body) \subseteq Registered

\* C9: in a program whose calls all name registered functions,
\* checkRecursion returns true when the body of the target calls the target,
\* or calls a function whose body calls the target; it returns false when no
\* chain of calls leads back to the target and the call graph reached is
\* acyclic.
C9_RecursionDetected ==
    (RecEnded /\ AllResolved(rtarget)) =>
        /\ (DirectCall(rtarget) \/ IndirectCall(rtarget)) => rpc = "true"
        /\ (~ChainBack(rtarget) /\ AcyclicFrom(rtarget)) => rpc = "false"

\* C10: the check of f never ends when it enters a cycle of calls that does
\* not include f before it meets a call to f: the recursion goes on until
\* the call stack is exhausted, however deep the stack.  It ends when every
\* cycle of calls that can be reached from f passes through f.
C10_Termination ==
    /\ []((rpc # "idle" /\ ForeignCycleFirst(rtarget)) => rpc \in {"run", "overflow"})
    /\ ((rpc = "run" /\ ForeignCycleFirst(rtarget)) ~> rpc = "overflow")
    /\ ((rpc = "run" /\ ~ForeignCycle(rtarget)) ~> rpc \in {"true", "false", "segv"})

\* f calls b, b calls c, c calls b: the check of f exhausted the stack
C10_Witness ==
    /\ rpc = "overflow"
    /\ rtarget.ident = "f"
    /\ searchFuncs(funcs, "f").body = Block(<<Call("b", <<>>)>>)
    /\ searchFuncs(funcs, "b").body = Block(<<Call("c", <<>>)>>)
    /\ searchFuncs(funcs, "c").body = Block(<<Call("b", <<>>)>>)


-----------------------------------------------------------------------------
(* The order of the two checks of a function declaration *)

\* the context in which the body of the function declaration n is analysed
\* when the analysis starts in c: its scope, holding its parameters
BodyCtx(n, c) ==
    registerParams(n.variables, 1,
                   newScope(c, IF n.listReturn THEN SetList(n.type) ELSE n.type))

\* C11: checkRecursion runs only after the body passed its analysis: when
\* the analysis of the body returns false, the declaration returns false
\* with the diagnostics of the body alone, and nothing the recursion check
\* does (its diagnostic, its faults) is seen.
C11_RecursionCheckAfterBody ==
    [][(/\ op' = "NFunctionDeclaration"
        /\ \A ub \in UBOutcomes :
              NBlock_semanticAnalysis(arg'.body, BodyCtx(arg', Cur), ub).ret = "false")
        => (/\ ret' = "false"
            /\ \E ub \in UBOutcomes :
                 out' = NBlock_semanticAnalysis(arg'.body, BodyCtx(arg', Cur), ub).out)]_allvars

\* C12: one analysis run writes at most one diagnostic.
C12_OneDiagnostic == Len(out) <= 1

\* C19: the recursion check follows registered callees only: the analysis
\* of a function declaration whose body calls an unregistered function
\* other than itself returns true or false.
C19_AbsentCalleeNotFollowed ==
    [][(/\ op' = "NFunctionDeclaration"
        /\ \E g \in CalledBy(arg'.body) : g \notin Registered /\ g # arg'.ident)
        => ReturnedBool(ret')]_allvars


-----------------------------------------------------------------------------
(* The type checks of the statements: calls, assignments, returns, binary  *)
(* operators and list literals, analysed in contexts that declare scalars  *)
(* and lists of the base types 1 (int) and 2 (bool).                        *)

BinOp(o, lhs, rhs) == [kind |-> "NBinaryOperator", op |-> o, lhs |-> lhs, rhs |-> rhs]

List(value) == [kind |-> "NList", value |-> value]

VarInit(ident, type, size, init) == [Var(ident, type, size) EXCEPT !.init = init]

FuncReturning(ident, type, listReturn, variables, body) ==
    [Func(ident, type, variables, body) EXCEPT !.listReturn = listReturn]

\* the registry: int add(int p, int q) and int sum(int v[2])
TypeFuncs ==
    <<Func("add", 1, <<Var("p", 1, 1), Var("q", 1, 1)>>, Block(<<Return(Access("p"))>>)),
      Func("sum", 1, <<Var("v", 1, 2)>>, Block(<<>>))>>

\* int a; int l[2]; bool b; bool m[2]
TypeDecls == {Var("a", 1, 1), Var("l", 1, 2), Var("b", 2, 1), Var("m", 2, 2)}

\* the identifiers no scope ever declares
Undeclared == {"u", "w"}

ArgExprs == {Access("a"), Access("l"), Access("b")}

TypeCalls ==
    {Call("add", args) : args \in SeqsUpTo2(ArgExprs)}
    \cup {Call("sum", <<e>>) : e \in ArgExprs}

TypeAssigns ==
    {Assign(t, e) : t \in {"a", "l", "b", "m"},
                    e \in {Access("a"), Access("l"), Access("b"), Access("m"),
                           List(<<Access("a")>>)}}

TypeReturns == {Return(Access(v)) : v \in {"a", "b", "u"}}

TypeBinOps ==
    {BinOp("+", Access(x), Access(y)) : x \in Undeclared \cup {"a"},
                                        y \in Undeclared \cup {"a"}}

\* list literals of up to three elements
TypeLists ==
    {List(v) : v \in SeqsUpTo2(ArgExprs)}
    \cup {List(<<x, y, z>>) : x \in ArgExprs, y \in ArgExprs, z \in ArgExprs}

\* int c = add(a) and int c = add(a, a)
TypeInits ==
    {VarInit("c", 1, 1, Call("add", <<Access("a")>>)),
     VarInit("c", 1, 1, Call("add", <<Access("a"), Access("a")>>))}

RECURSIVE Nest(_, _)
\* the statement s inside d blocks
Nest(d, s) == IF d = 0 THEN s ELSE Block(<<Nest(d - 1, s)>>)

\* functions of every return type whose body returns one of their two
\* parameters, from the body itself or from blocks nested in it
ReturningFuncs ==
    {FuncReturning("r", type, lr, ps, Nest(d, Return(Access(ps[k].ident)))) :
        type \in {1, 2}, lr \in BOOLEAN,
        ps \in {<<Var("a", 1, 1), Var("b", 2, 1)>>, <<Var("a", 1, 1), Var("l", 1, 2)>>,
                <<Var("l", 1, 2), Var("m", 2, 2)>>},
        d \in 1..(MaxDepth - 1), k \in 1..2}

InitTypes ==
    /\ vars = <<<<>>>>
    /\ currType = <<0>>
    /\ currScope = 0
    /\ funcs = TypeFuncs
    /\ structs = <<>>
    /\ op = "idle"
    /\ arg = NULL
    /\ ret = "void"
    /\ out = <<>>
    /\ found = NULL
    /\ rtarget = NULL
    /\ rstack = <<>>
    /\ rpc = "idle"

\* n->getType(&rootCtx) for an expression n
GetType(n) ==
    /\ Idle
    /\ Called("getType", n, "type", <<>>, [type |-> getType(n, Cur)])
    /\ UNCHANGED <<ctxvars, regs, recvars>>

NFunctionCall_SA == \E n \in TypeCalls : Analyse(n)

NAssignmentStatement_Typed == \E n \in TypeAssigns : Analyse(n)

NReturn_SA == \E n \in TypeReturns : Analyse(n)

NBinaryOperator_SA == \E n \in TypeBinOps : Analyse(n)

NVariableDeclaration_SA == \E n \in TypeInits : Analyse(n)

NFunctionDeclaration_Returning == \E n \in ReturningFuncs : Analyse(n)

NList_getType_Call == \E n \in TypeLists : GetType(n)

NextTypes ==
    \/ \E var \in TypeDecls : RegisterVar(var)
    \/ NFunctionCall_SA
    \/ NAssignmentStatement_Typed
    \/ NReturn_SA
    \/ NBinaryOperator_SA
    \/ NVariableDeclaration_SA
    \/ NFunctionDeclaration_Returning
    \/ NList_getType_Call
    \/ Returned

SpecTypes == InitTypes /\ [][NextTypes]_allvars


-----------------------------------------------------------------------------
(* Properties of the type checks *)

\* the expression is an access to a variable declared scalar of base type
IsScalar(e, type) ==
    /\ e.kind = "NVariableAccess"
    /\ Innermost(vars, e.ident) # NULL
    /\ Innermost(vars, e.ident).type = type
    /\ Innermost(vars, e.ident).size = 1

\* the expression is an access to a variable declared as a list of base type
IsList(e, type) ==
    /\ e.kind = "NVariableAccess"
    /\ Innermost(vars, e.ident) # NULL
    /\ Innermost(vars, e.ident).type = type
    /\ Innermost(vars, e.ident).size > 1

ArityDiag(ident) == <<Diag("Call with invalid number of arguments: ", ident)>>

CallTypeDiag(ident) == <<Diag("Type mismatch when calling function: ", ident)>>

\* C13: a call statement to add, declared with two scalar int parameters,
\* fails on its arity with one argument, fails with a type mismatch with two
\* arguments of which the second is a list of int, and succeeds with two
\* scalar int arguments.
C13_CallArityAndTypes ==
    [][(op' = "NFunctionCall" /\ arg'.ident = "add")
        => (/\ Len(arg'.args) = 1
                => (ret' = "false" /\ out' = ArityDiag("add"))
            /\ (Len(arg'.args) = 2 /\ IsList(arg'.args[2], 1))
                => (ret' = "false" /\ out' = CallTypeDiag("add"))
            /\ (Len(arg'.args) = 2 /\ IsScalar(arg'.args[1], 1) /\ IsScalar(arg'.args[2], 1))
                => (ret' = "true" /\ out' = <<>>))]_allvars

\* add(a, l) was rejected for the type of l, declared int l[2]
C13_Witness ==
    /\ op = "NFunctionCall"
    /\ arg = Call("add", <<Access("a"), Access("l")>>)
    /\ IsScalar(Access("a"), 1)
    /\ IsList(Access("l"), 1)
    /\ ret = "false"
    /\ out = CallTypeDiag("add")

\* the callee of the call n is registered and takes as many parameters as
\* the call has arguments
ArityMatches(n) ==
    /\ searchFuncs(funcs, n.ident) # NULL
    /\ Len(searchFuncs(funcs, n.ident).variables) = Len(n.args)

Param(n, i) == searchFuncs(funcs, n.ident).variables[i]

\* C14, as the specification words it: a call whose arguments have the base types of the
\* scalar parameters passes, also when an argument is a list.
C14_ListArgumentPasses ==
    [][(/\ op' = "NFunctionCall"
        /\ ArityMatches(arg')
        /\ \A i \in 1..Len(arg'.args) :
              /\ Param(arg', i).size = 1
              /\ IsScalar(arg'.args[i], Param(arg', i).type)
                    \/ IsList(arg'.args[i], Param(arg', i).type)
        /\ \E i \in 1..Len(arg'.args) : IsList(arg'.args[i], Param(arg', i).type))
        => ret' = "true"]_allvars

\* C14, as the code has it: a list argument whose base type is that of the scalar
\* parameter fails the check with a type mismatch; the argument's type, list
\* flag included, is compared with the declared base type of the parameter,
\* so scalar arguments of the base types pass, for list-declared parameters
\* too.
C14_ListArgumentRejected ==
    [][(op' = "NFunctionCall" /\ ArityMatches(arg'))
        => (/\ (\E i \in 1..Len(arg'.args) :
                    Param(arg', i).size = 1 /\ IsList(arg'.args[i], Param(arg', i).type))
                => (ret' = "false" /\ out' = CallTypeDiag(arg'.ident))
            /\ (\A i \in 1..Len(arg'.args) : IsScalar(arg'.args[i], Param(arg', i).type))
                => (ret' = "true" /\ out' = <<>>))]_allvars

\* add(l, a) was rejected for the type of l, declared int l[2]
C14_Witness ==
    /\ op = "NFunctionCall"
    /\ arg = Call("add", <<Access("l"), Access("a")>>)
    /\ IsList(Access("l"), 1)
    /\ IsScalar(Access("a"), 1)
    /\ ret = "false"
    /\ out = CallTypeDiag("add")


\* the base types of the declarations of the model
BaseTypes == {1, 2}

\* the expression is a list: a variable declared as a list of the base
\* type, or a literal of scalars of the base type
ExprIsList(e, type) ==
    \/ IsList(e, type)
    \/ /\ e.kind = "NList"
       /\ Len(e.value) > 0
       /\ \A i \in 1..Len(e.value) : IsScalar(e.value[i], type)

AssignDiag(ident) == <<Diag("Type mismatch for assignment to ", ident)>>

\* C15: for a declared target, an assignment of a list of T to a scalar of
\* base type T fails with a type mismatch, and so does an assignment of a
\* scalar T to a list of T; an assignment succeeds exactly when scalar meets
\* scalar or list meets list, of the same base type.
C15_AssignmentTypes ==
    [][(op' = "NAssignmentStatement" /\ Innermost(vars, arg'.ident) # NULL)
        => LET target == Innermost(vars, arg'.ident)
               e == arg'.expr
           IN  /\ \A type \in BaseTypes :
                     (target.type = type /\ target.size = 1 /\ ExprIsList(e, type))
                        => (ret' = "false" /\ out' = AssignDiag(arg'.ident))
               /\ \A type \in BaseTypes :
                     (target.type = type /\ target.size > 1 /\ IsScalar(e, type))
                        => (ret' = "false" /\ out' = AssignDiag(arg'.ident))
               /\ ret' = "true"
                     <=> \/ target.size = 1 /\ IsScalar(e, target.type)
                         \/ target.size > 1 /\ ExprIsList(e, target.type)
               /\ ret' \in {"true", "false"}
               /\ CurNext = Cur]_allvars

\* a = l was rejected, with int a and int l[2]
C15_Witness ==
    /\ op = "NAssignmentStatement"
    /\ arg = Assign("a", Access("l"))
    /\ IsScalar(Access("a"), 1)
    /\ IsList(Access("l"), 1)
    /\ ret = "false"
    /\ out = AssignDiag("a")

RECURSIVE ReturnOf(_)
\* the return statement inside the nested blocks
ReturnOf(n) == IF n.kind = "NReturn" THEN n ELSE ReturnOf(n.statements[1])

\* the parameter of the function that its body returns
ReturnedParam(n) ==
    n.variables[CHOOSE k \in 1..Len(n.variables) :
                    n.variables[k].ident = ReturnOf(n.body).retExpr.ident]

\* C16: a return statement at any depth of nested blocks of a function's
\* body succeeds iff the type of its expression is the function's declared
\* return type, list flag included: an int function accepts the return of an
\* int and rejects the return of a bool or of a list of int.
C16_ReturnMatchesFunctionType ==
    [][(op' = "NFunctionDeclaration" /\ arg' \in ReturningFuncs)
        => (/\ ret' \in {"true", "false"}
            /\ ret' = "true"
                  <=> /\ ReturnedParam(arg').type = arg'.type
                      /\ (ReturnedParam(arg').size > 1) <=> arg'.listReturn
            /\ ret' = "false" => out' = <<Diag("Returning type ", "")>>)]_allvars

\* int r(int a, bool b) { { return a; } } passed, the return two blocks deep
C16_Witness ==
    /\ op = "NFunctionDeclaration"
    /\ arg = FuncReturning("r", 1, FALSE, <<Var("a", 1, 1), Var("b", 2, 1)>>,
                           Nest(2, Return(Access("a"))))
    /\ ret = "true"
    /\ out = <<>>

\* the type of an access, from the declaration in scope
DeclaredType(e) ==
    IF Innermost(vars, e.ident) = NULL THEN 0
    ELSE IF Innermost(vars, e.ident).size = 1 THEN Innermost(vars, e.ident).type
    ELSE Innermost(vars, e.ident).type + ListFlag

\* C17: NList::getType returns 0 for the empty list and 0 for a list with an
\* element whose type differs from that of the first; for a list whose
\* elements all have the type t it returns t with the list flag set.
C17_ListType ==
    (op = "getType" /\ arg.kind = "NList")
        => LET n == Len(arg.value)
               t == DeclaredType(arg.value[1])
           IN  /\ n = 0 => found.type = 0
               /\ (n > 0 /\ \E i \in 1..n : DeclaredType(arg.value[i]) # t)
                     => found.type = 0
               /\ (n > 0 /\ \A i \in 1..n : DeclaredType(arg.value[i]) = t)
                     => found.type = (IF t < 0 THEN t ELSE t + ListFlag)

\* the type of [a, a, b] is 0, with int a and bool b
C17_Witness ==
    /\ op = "getType"
    /\ arg = List(<<Access("a"), Access("a"), Access("b")>>)
    /\ IsScalar(Access("a"), 1)
    /\ IsScalar(Access("b"), 2)
    /\ found.type = 0

\* the expression is an access to an identifier no scope declares
IsUndeclared(e) == e.kind = "NVariableAccess" /\ Innermost(vars, e.ident) = NULL

\* C20: a binary operator whose two operands are accesses to identifiers no
\* scope declares passes its analysis, and so does the return of such an
\* access when the expected return type on top of the stack is 0: no
\* diagnostic tells of the undefined reference.
C20_UndefinedReferencesAccepted ==
    [][/\ (op' = "NBinaryOperator" /\ IsUndeclared(arg'.lhs) /\ IsUndeclared(arg'.rhs))
            => (ret' = "true" /\ out' = <<>>)
       /\ (op' = "NReturn" /\ IsUndeclared(arg'.retExpr) /\ Back(currType) = 0)
            => (ret' = "true" /\ out' = <<>>)]_allvars

\* u + w passed although neither u nor w is declared
C20_Witness ==
    /\ op = "NBinaryOperator"
    /\ arg = BinOp("+", Access("u"), Access("w"))
    /\ IsUndeclared(Access("u"))
    /\ IsUndeclared(Access("w"))
    /\ ret = "true"
    /\ out = <<>>


-----------------------------------------------------------------------------
(* The global registries: the driver registers and looks up functions and  *)
(* structures while scopes are pushed and popped.                           *)

Struct(ident, members) ==
    [kind |-> "NStructureDeclaration", ident |-> ident, members |-> members]

RegNames == {"f", "g"}

\* two declarations of each function name
RegFuncs == {Func(g, type, <<>>, Block(<<>>)) : g \in RegNames, type \in {0, 1}}

StructNames == {"s", "t"}

\* two declarations of each structure name
RegStructs ==
    {Struct(n, ms) : n \in StructNames, ms \in {<<>>, <<Var("x", 1, 1)>>}}

InitReg ==
    /\ vars = <<<<>>>>
    /\ currType = <<0>>
    /\ currScope = 0
    /\ funcs = <<>>
    /\ structs = <<>>
    /\ op = "idle"
    /\ arg = NULL
    /\ ret = "void"
    /\ out = <<>>
    /\ found = NULL
    /\ rtarget = NULL
    /\ rstack = <<>>
    /\ rpc = "idle"

RegisterFunc(func) ==
    /\ Idle
    /\ funcs' = registerFuncList(funcs, func)
    /\ Called("registerFunc", func, registerFuncRet(funcs, func), <<>>, NULL)
    /\ UNCHANGED <<ctxvars, structs, recvars>>

RegisterStruct(s) ==
    /\ Idle
    /\ structs' = registerStructList(structs, s)
    /\ Called("registerStruct", s, registerStructRet(structs, s), <<>>, NULL)
    /\ UNCHANGED <<ctxvars, funcs, recvars>>

SearchFuncs(ident) ==
    /\ Idle
    /\ Called("searchFuncs", [ident |-> ident],
              IF searchFuncs(funcs, ident) = NULL THEN "NULL" ELSE "ptr",
              <<>>, searchFuncs(funcs, ident))
    /\ UNCHANGED <<ctxvars, regs, recvars>>

SearchStructs(ident) ==
    /\ Idle
    /\ Called("searchStructs", [ident |-> ident],
              IF searchStructs(structs, ident) = NULL THEN "NULL" ELSE "ptr",
              <<>>, searchStructs(structs, ident))
    /\ UNCHANGED <<ctxvars, regs, recvars>>

NextReg ==
    \/ \E type \in ScopeTypes : NewScope(type)
    \/ DelScope
    \/ \E func \in RegFuncs : RegisterFunc(func)
    \/ \E s \in RegStructs : RegisterStruct(s)
    \/ \E ident \in RegNames : SearchFuncs(ident)
    \/ \E ident \in StructNames : SearchStructs(ident)
    \/ Returned

SpecReg == InitReg /\ [][NextReg]_allvars

\* the identifiers of a registry are pairwise distinct
RegistryDistinct(registry) ==
    \A i, j \in 1..Len(registry) : registry[i].ident = registry[j].ident => i = j

\* the registered declarations of the identifier
Matches(registry, ident) ==
    {registry[j] : j \in {k \in 1..Len(registry) : registry[k].ident = ident}}

\* the pointer is that of the one registered declaration of the identifier,
\* or null when there is none
UniqueMatch(registry, ident, ptr) ==
    IF Matches(registry, ident) = {} THEN ptr = NULL
    ELSE Matches(registry, ident) = {ptr}

\* C18: registerFunc and registerStruct return false and leave the registry
\* as it is when it holds a declaration of the identifier, whatever scopes
\* are on the stack, and append and return true otherwise; so no two
\* registered functions and no two registered structures have the same
\* identifier, and searchFuncs and searchStructs return the only match.
C18_RegistriesUnique ==
    /\ [](RegistryDistinct(funcs) /\ RegistryDistinct(structs))
    /\ [][op' = "registerFunc"
          => IF Matches(funcs, arg'.ident) # {}
             THEN ret' = "false" /\ funcs' = funcs
             ELSE ret' = "true" /\ funcs' = Append(funcs, arg')]_allvars
    /\ [][op' = "registerStruct"
          => IF Matches(structs, arg'.ident) # {}
             THEN ret' = "false" /\ structs' = structs
             ELSE ret' = "true" /\ structs' = Append(structs, arg')]_allvars
    /\ [](op = "searchFuncs" => UniqueMatch(funcs, arg.ident, found))
    /\ [](op = "searchStructs" => UniqueMatch(structs, arg.ident, found))

\* a second declaration of f was rejected inside a nested scope, and the
\* registry still holds the first one
C18_Witness ==
    /\ op = "registerFunc"
    /\ ret = "false"
    /\ arg = Func("f", 1, <<>>, Block(<<>>))
    /\ Matches(funcs, "f") = {Func("f", 0, <<>>, Block(<<>>))}
    /\ Len(vars) > 1
    /\ Matches(structs, "s") # {}

====
